---- MODULE Spec2Model ----
(***************************************************************************)
(* md2html (bin/scidown.c): one Markdown conversion, statement by          *)
(* statement.  The document library (buffers, renderers, documents) is     *)
(* seen through the calls md2html makes on it.                             *)
(***************************************************************************)
EXTENDS Integers, Sequences, FiniteSets, TLC

(* ---------------------------------------------------------------- bounds *)
MaxByte == 1
MaxInput == 2
MaxOutput == 2
MaxClock == 2
MaxTokens == 3
\* clock ticks per second, scaled down so that both report branches occur
ClocksPerSec == 2

(* ------------------------------------------------------ program constants *)
DEF_IUNIT == 1024
DEF_OUNIT == 64
DEF_MAX_NESTING == 16
\* (clock_t) -1, the value clock() returns when the time is unavailable
ClockFail == 0 - 1

Byte == 0 .. MaxByte
\* the content of a byte of storage that was never written (no value of Byte)
Junk == 0 - 2

RECURSIVE SeqsUpTo(_, _)
SeqsUpTo(S, n) ==
  IF n = 0 THEN {<< >>}
  ELSE LET shorter == SeqsUpTo(S, n - 1)
       IN  shorter \cup {Append(s, x) : s \in {t \in shorter : Len(t) = n - 1}, x \in S}

(* ------------------------------------------------------- flag descriptors *)
\* option names of extensions_info, grouped by category mask
HOEDOWN_EXT_BLOCK == {"tables", "fenced-code", "footnotes"}
HOEDOWN_EXT_SPAN ==
  {"autolink", "strikethrough", "underline", "highlight", "quote", "superscript", "math"}
HOEDOWN_EXT_FLAGS ==
  {"disable-intra-emphasis", "space-headers", "math-explicit", "scidown"}
HOEDOWN_EXT_NEGATIVE == {"disable-indented-code"}

extensions_info ==
  HOEDOWN_EXT_BLOCK \cup HOEDOWN_EXT_SPAN \cup HOEDOWN_EXT_FLAGS \cup HOEDOWN_EXT_NEGATIVE

html_flags_info ==
  {"skip-html", "escape", "hard-wrap", "xhtml", "mermaid", "gnuplot", "style"}

\* a command-line option token: a flag name, with or without negative_prefix
Token(neg, name) == [neg |-> neg, name |-> name]
\* the flags the option sequences of the model range over
TokenNames == {"tables", "escape"}
Tokens == {Token(n, f) : n \in BOOLEAN, f \in TokenNames}

(* ----------------------------------------------------------------- state *)
VARIABLES
  pc,            \* position in md2html
  tokens,        \* the option tokens of the invocation
  input,         \* input_data[0 .. input_size-1]
  data,          \* struct option_data data
  ib, ob,        \* hoedown_buffer *ib, *ob
  renderer,      \* hoedown_renderer *renderer
  renderer_free, \* void (*renderer_free)(hoedown_renderer *)
  ext,           \* ext_definition ext
  document,      \* hoedown_document *document
  t1, t2,        \* clock_t t1, t2
  output,        \* void *output
  output_data,   \* *output_data, << >> while the caller's variable is unset
  output_size,   \* *output_size, << >> while the caller's variable is unset
  ret,           \* the value returned, << >> before the return
  err,           \* what was written to stderr
  rendered,      \* the bytes hoedown_document_render wrote
  events         \* the library calls made on the four resources, in order

vars == << pc, tokens, input, data, ib, ob, renderer, renderer_free, ext, document,
           t1, t2, output, output_data, output_size, ret, err, rendered, events >>

NULL == [null |-> TRUE]
Resources == {"ib", "ob", "document", "renderer"}

Event(op, res, by) == [op |-> op, res |-> res, by |-> by]

(* ------------------------------------------------------ library behaviour *)
\* hoedown_buffer_new(unit): an empty buffer, or NULL
BufferNew(unit) == [null |-> FALSE, data |-> << >>, size |-> 0, asize |-> 0, unit |-> unit]

\* the capacity hoedown_buffer_grow reaches for a request of neosz bytes
RECURSIVE GrowTo(_, _, _)
GrowTo(asize, unit, neosz) ==
  IF asize >= neosz THEN asize ELSE GrowTo(asize + unit, unit, neosz)

\* hoedown_buffer_set(buf, bytes, size): the buffer holds exactly bytes
BufferSet(buf, bytes) ==
  [buf EXCEPT !.data = bytes, !.size = Len(bytes),
              !.asize = GrowTo(buf.asize, buf.unit, Len(bytes))]

\* malloc(n): n bytes of uninitialised storage
Malloc(n) == [null |-> FALSE, bytes |-> [i \in 1 .. n |-> Junk]]

\* memcpy(dst, src, n) out of storage whose first Len(src) bytes are written
Memcpy(src, n) == [i \in 1 .. n |-> IF i <= Len(src) THEN src[i] ELSE Junk]

(* ------------------------------------------------------------------ Init *)
\* md2html entered: the locals hold nothing yet (each is assigned before it is
\* read; the values below stand for "not yet assigned")
InitCommon ==
  /\ pc = "parse_options"
  /\ input \in SeqsUpTo(Byte, MaxInput)
  /\ data = [show_time |-> 0, iunit |-> 0, ounit |-> 0, renderer |-> "RENDERER_HTML",
             toc_level |-> 0, render_flags |-> {}, extensions |-> {}, max_nesting |-> 0]
  /\ ib = NULL
  /\ ob = NULL
  /\ renderer = NULL
  /\ renderer_free = "NULL"
  /\ ext = [extra_header |-> "NULL", extra_closing |-> "NULL"]
  /\ document = NULL
  /\ t1 = 0
  /\ t2 = 0
  /\ output = NULL
  /\ output_data = << >>
  /\ output_size = << >>
  /\ ret = << >>
  /\ err = "none"
  /\ rendered = << >>
  /\ events = << >>

Init == InitCommon /\ tokens = << >>

InitOptions == InitCommon /\ tokens \in SeqsUpTo(Tokens, MaxTokens)

(* --------------------------------------------------------------- actions *)
\* lines 182-189: the configuration is the fixed baseline
ParseOptions ==
  /\ pc = "parse_options"
  /\ data' = [show_time |-> 1,
              iunit |-> DEF_IUNIT,
              ounit |-> DEF_OUNIT,
              renderer |-> "RENDERER_HTML",
              toc_level |-> 0,
              render_flags |-> {"mermaid", "charter", "gnuplot", "style"},
              extensions |-> HOEDOWN_EXT_BLOCK \cup HOEDOWN_EXT_SPAN \cup HOEDOWN_EXT_FLAGS,
              max_nesting |-> DEF_MAX_NESTING]
  /\ pc' = "new_ib"
  /\ UNCHANGED << tokens, input, ib, ob, renderer, renderer_free, ext, document,
                  t1, t2, output, output_data, output_size, ret, err, rendered, events >>

\* line 191: ib = hoedown_buffer_new(data.iunit)
NewIb ==
  /\ pc = "new_ib"
  /\ \E b \in {BufferNew(data.iunit), NULL} :
       /\ ib' = b
       /\ events' = Append(events, Event(IF b.null THEN "fail" ELSE "new", "ib", "hoedown_buffer_new"))
  /\ pc' = "set_ib"
  /\ UNCHANGED << tokens, input, data, ob, renderer, renderer_free, ext, document,
                  t1, t2, output, output_data, output_size, ret, err, rendered >>

\* line 192: hoedown_buffer_set(ib, input_data, input_size)
SetIb ==
  /\ pc = "set_ib"
  /\ IF ib.null
       THEN /\ pc' = "crashed"
            /\ UNCHANGED << ib, events >>
       ELSE /\ ib' = BufferSet(ib, input)
            /\ events' = Append(events, Event("use", "ib", "hoedown_buffer_set"))
            /\ pc' = "new_renderer"
  /\ UNCHANGED << tokens, input, data, ob, renderer, renderer_free, ext, document,
                  t1, t2, output, output_data, output_size, ret, err, rendered >>

\* the branches of lines 195-200 with the HTML and LaTeX constructors exchanged
RendererNew_Swapped(kind) ==
  IF kind = "RENDERER_HTML" THEN "scidown_latex_renderer_new"
  ELSE IF kind = "RENDERER_HTML_TOC" THEN "hoedown_html_toc_renderer_new"
  ELSE IF kind = "RENDERER_LATEX" THEN "hoedown_html_renderer_new"
  ELSE "none"

\* lines 195-200: the constructor the variant selects
RendererNew(kind) ==
  IF kind = "RENDERER_HTML" THEN "hoedown_html_renderer_new"
  ELSE IF kind = "RENDERER_HTML_TOC" THEN "hoedown_html_toc_renderer_new"
  ELSE IF kind = "RENDERER_LATEX" THEN "scidown_latex_renderer_new"
  ELSE "none"

\* lines 195-201: renderer = <constructor>(...); renderer_free = hoedown_html_renderer_free
NewRenderer ==
  /\ pc = "new_renderer"
  /\ LET ctor == RendererNew(data.renderer)
     IN  \E r \in {[null |-> FALSE, ctor |-> ctor, flags |-> data.render_flags,
                    toc_level |-> data.toc_level], NULL} :
           /\ renderer' = IF ctor = "none" THEN renderer ELSE r
           /\ events' = IF ctor = "none" THEN events
                        ELSE Append(events, Event(IF r.null THEN "fail" ELSE "new", "renderer", ctor))
  /\ renderer_free' = "hoedown_html_renderer_free"
  /\ pc' = "new_ob"
  /\ UNCHANGED << tokens, input, data, ib, ob, ext, document,
                  t1, t2, output, output_data, output_size, ret, err, rendered >>

\* line 204: ob = hoedown_buffer_new(data.ounit)
NewOb ==
  /\ pc = "new_ob"
  /\ \E b \in {BufferNew(data.ounit), NULL} :
       /\ ob' = b
       /\ events' = Append(events, Event(IF b.null THEN "fail" ELSE "new", "ob", "hoedown_buffer_new"))
  /\ pc' = "build_ext"
  /\ UNCHANGED << tokens, input, data, ib, renderer, renderer_free, ext, document,
                  t1, t2, output, output_data, output_size, ret, err, rendered >>

\* lines 206-227: ext = {NULL, NULL}; both blocks are set for RENDERER_HTML
ExtFor_WrongVariant(kind) ==
  IF kind = "RENDERER_HTML_TOC"
    THEN [extra_header |-> "katex-highlight-mermaid links", extra_closing |-> "font style and init script"]
    ELSE [extra_header |-> "NULL", extra_closing |-> "NULL"]

ExtFor(kind) ==
  IF kind = "RENDERER_HTML"
    THEN [extra_header |-> "katex-highlight-mermaid links", extra_closing |-> "font style and init script"]
    ELSE [extra_header |-> "NULL", extra_closing |-> "NULL"]

BuildExt ==
  /\ pc = "build_ext"
  /\ ext' = ExtFor(data.renderer)
  /\ pc' = "new_document"
  /\ UNCHANGED << tokens, input, data, ib, ob, renderer, renderer_free, document,
                  t1, t2, output, output_data, output_size, ret, err, rendered, events >>

\* line 228: document = hoedown_document_new(renderer, data.extensions, &ext, NULL, data.max_nesting)
NewDocument ==
  /\ pc = "new_document"
  /\ IF renderer.null
       THEN /\ pc' = "crashed"
            /\ UNCHANGED << document, events >>
       ELSE /\ \E d \in {[null |-> FALSE, renderer |-> renderer.ctor,
                          extensions |-> data.extensions, ext |-> ext,
                          max_nesting |-> data.max_nesting], NULL} :
                 /\ document' = d
                 /\ events' = events \o << Event("use", "renderer", "hoedown_document_new"),
                                           Event(IF d.null THEN "fail" ELSE "new", "document",
                                                 "hoedown_document_new") >>
            /\ pc' = "clock1"
  /\ UNCHANGED << tokens, input, data, ib, ob, renderer, renderer_free, ext,
                  t1, t2, output, output_data, output_size, ret, err, rendered >>

\* line 230: t1 = clock()
Clock1 ==
  /\ pc = "clock1"
  /\ t1' \in {ClockFail} \cup (0 .. MaxClock)
  /\ pc' = "render"
  /\ UNCHANGED << tokens, input, data, ib, ob, renderer, renderer_free, ext, document,
                  t2, output, output_data, output_size, ret, err, rendered, events >>

\* line 231: hoedown_document_render(document, ob, ib->data, ib->size, -1)
Render ==
  /\ pc = "render"
  /\ IF document.null \/ ob.null
       THEN /\ pc' = "crashed"
            /\ UNCHANGED << ob, rendered, events >>
       ELSE /\ \E w \in SeqsUpTo(Byte, MaxOutput) :
                 /\ rendered' = w
                 /\ ob' = BufferSet(ob, w)
            /\ events' = events \o << Event("use", "ib", "ib->data"),
                                      Event("use", "document", "hoedown_document_render"),
                                      Event("use", "renderer", "hoedown_document_render"),
                                      Event("use", "ob", "hoedown_document_render") >>
            /\ pc' = "clock2"
  /\ UNCHANGED << tokens, input, data, ib, renderer, renderer_free, ext, document,
                  t1, t2, output, output_data, output_size, ret, err >>

\* line 232: t2 = clock()
Clock2 ==
  /\ pc = "clock2"
  /\ t2' \in {ClockFail} \cup {t \in 0 .. MaxClock : t1 = ClockFail \/ t >= t1}
  /\ pc' = "free_ib"
  /\ UNCHANGED << tokens, input, data, ib, ob, renderer, renderer_free, ext, document,
                  t1, output, output_data, output_size, ret, err, rendered, events >>

\* line 235 releasing both buffers at once, before the output is copied
FreeIb_AndOb ==
  /\ pc = "free_ib"
  /\ events' = events \o << Event("free", "ib", "hoedown_buffer_free"),
                            Event("free", "ob", "hoedown_buffer_free") >>
  /\ pc' = "free_document"
  /\ UNCHANGED << tokens, input, data, ib, ob, renderer, renderer_free, ext, document,
                  t1, t2, output, output_data, output_size, ret, err, rendered >>

\* line 235: hoedown_buffer_free(ib)
FreeIb ==
  /\ pc = "free_ib"
  /\ events' = Append(events, Event("free", "ib", "hoedown_buffer_free"))
  /\ pc' = "free_document"
  /\ UNCHANGED << tokens, input, data, ib, ob, renderer, renderer_free, ext, document,
                  t1, t2, output, output_data, output_size, ret, err, rendered >>

\* line 236 skipped: the document is never released
FreeDocument_Leak ==
  /\ pc = "free_document"
  /\ pc' = "free_renderer"
  /\ UNCHANGED << tokens, input, data, ib, ob, renderer, renderer_free, ext, document,
                  t1, t2, output, output_data, output_size, ret, err, rendered, events >>

\* line 236: hoedown_document_free(document)
FreeDocument ==
  /\ pc = "free_document"
  /\ events' = Append(events, Event("free", "document", "hoedown_document_free"))
  /\ pc' = "free_renderer"
  /\ UNCHANGED << tokens, input, data, ib, ob, renderer, renderer_free, ext, document,
                  t1, t2, output, output_data, output_size, ret, err, rendered >>

\* line 237 dropped from the cleanup block: the renderer is not released
\* before the output buffer
FreeRenderer_AfterOb ==
  /\ pc = "free_renderer"
  /\ pc' = "malloc"
  /\ UNCHANGED << tokens, input, data, ib, ob, renderer, renderer_free, ext, document,
                  t1, t2, output, output_data, output_size, ret, err, rendered, events >>

\* line 237: renderer_free(renderer)
FreeRenderer ==
  /\ pc = "free_renderer"
  /\ events' = Append(events, Event("free", "renderer", renderer_free))
  /\ pc' = "malloc"
  /\ UNCHANGED << tokens, input, data, ib, ob, renderer, renderer_free, ext, document,
                  t1, t2, output, output_data, output_size, ret, err, rendered >>

\* line 239: void *output = malloc(ob->size); a request may fail, and a request
\* of zero bytes may return a null pointer
MallocOutput ==
  /\ pc = "malloc"
  /\ output' \in {Malloc(ob.size), NULL}
  /\ events' = Append(events, Event("use", "ob", "ob->size"))
  /\ pc' = "memcpy"
  /\ UNCHANGED << tokens, input, data, ib, ob, renderer, renderer_free, ext, document,
                  t1, t2, output_data, output_size, ret, err, rendered >>

\* line 240 copying one byte too few
CopyOutput_Short ==
  /\ pc = "memcpy"
  /\ IF output.null /\ ob.size > 0
       THEN /\ pc' = "crashed"
            /\ UNCHANGED << output, events >>
       ELSE /\ output' = IF output.null THEN output
                         ELSE [output EXCEPT !.bytes =
                                 [i \in 1 .. ob.size |->
                                    IF i < ob.size THEN ob.data[i] ELSE Junk]]
            /\ events' = Append(events, Event("use", "ob", "ob->data"))
            /\ pc' = "store"
  /\ UNCHANGED << tokens, input, data, ib, ob, renderer, renderer_free, ext, document,
                  t1, t2, output_data, output_size, ret, err, rendered >>

\* line 240: memcpy(output, ob->data, ob->size)
CopyOutput ==
  /\ pc = "memcpy"
  /\ IF output.null /\ ob.size > 0
       THEN /\ pc' = "crashed"
            /\ UNCHANGED << output, events >>
       ELSE /\ output' = IF output.null THEN output
                         ELSE [output EXCEPT !.bytes = Memcpy(ob.data, ob.size)]
            /\ events' = Append(events, Event("use", "ob", "ob->data"))
            /\ pc' = "store"
  /\ UNCHANGED << tokens, input, data, ib, ob, renderer, renderer_free, ext, document,
                  t1, t2, output_data, output_size, ret, err, rendered >>

\* lines 241-242: *output_data = output; *output_size = ob->size
StoreOutput ==
  /\ pc = "store"
  /\ output_data' = << output >>
  /\ output_size' = << ob.size >>
  /\ events' = Append(events, Event("use", "ob", "ob->size"))
  /\ pc' = "free_ob"
  /\ UNCHANGED << tokens, input, data, ib, ob, renderer, renderer_free, ext, document,
                  t1, t2, output, ret, err, rendered >>

\* line 243: hoedown_buffer_free(ob)
FreeOb ==
  /\ pc = "free_ob"
  /\ events' = Append(events, Event("free", "ob", "hoedown_buffer_free"))
  /\ pc' = "show_time"
  /\ UNCHANGED << tokens, input, data, ib, ob, renderer, renderer_free, ext, document,
                  t1, t2, output, output_data, output_size, ret, err, rendered >>

\* line 249 with && in place of ||
TimeUnavailable_Both == t1 = ClockFail /\ t2 = ClockFail

\* line 249: either reading is (clock_t) -1
TimeUnavailable == t1 = ClockFail \/ t2 = ClockFail

\* lines 246-261: the timing report and the return value
ShowTime ==
  /\ pc = "show_time"
  /\ IF data.show_time # 0
       THEN IF TimeUnavailable
              THEN /\ err' = "Failed to get the time."
                   /\ ret' = << 1 >>
              ELSE /\ err' = IF t2 - t1 < ClocksPerSec THEN "Time spent on rendering: ms"
                                                       ELSE "Time spent on rendering: s"
                   /\ ret' = << 0 >>
       ELSE /\ err' = err
            /\ ret' = << 0 >>
  /\ pc' = "returned"
  /\ UNCHANGED << tokens, input, data, ib, ob, renderer, renderer_free, ext, document,
                  t1, t2, output, output_data, output_size, rendered, events >>

Next ==
  \/ ParseOptions
  \/ NewIb
  \/ SetIb
  \/ NewRenderer
  \/ NewOb
  \/ BuildExt
  \/ NewDocument
  \/ Clock1
  \/ Render
  \/ Clock2
  \/ FreeIb
  \/ FreeDocument
  \/ FreeRenderer
  \/ MallocOutput
  \/ CopyOutput
  \/ StoreOutput
  \/ FreeOb
  \/ ShowTime

Spec == Init /\ [][Next]_vars

SpecOptions == InitOptions /\ [][Next]_vars

(* ------------------------------------------------------------ properties *)
EventsOf(op, res) == SelectSeq(events, LAMBDA e : e.op = op /\ e.res = res)

Count(op, res) == Len(EventsOf(op, res))

Frees == SelectSeq(events, LAMBDA e : e.op = "free")

\* the resources in the order of their release
ReleaseOrder == [i \in 1 .. Len(Frees) |-> Frees[i].res]

IsPrefix(s, t) == Len(s) <= Len(t) /\ \A i \in 1 .. Len(s) : s[i] = t[i]

\* the bytes of a region handed to the caller (none behind a null pointer)
RegionBytes(p) == IF p.null THEN << >> ELSE p.bytes

AllocFailed == \E i \in 1 .. Len(events) : events[i].op = "fail"

\* how the process stands: running, returned with a status, or killed
ExitCode ==
  IF pc = "returned" THEN (IF ret = << 0 >> THEN "0" ELSE "1")
  ELSE IF pc = "crashed" THEN "killed by signal"
  ELSE "running"

\* C1 as stated: releases happen in the order input buffer, output buffer,
\* document, renderer; the document and the renderer are never released
\* before the output buffer.
C1_ReleaseOrderAsStated ==
  IsPrefix(ReleaseOrder, << "ib", "ob", "document", "renderer" >>)

\* C1 amended: releases happen in the order input buffer, document, renderer,
\* output buffer, and a run that returns has made all four, whatever the
\* render wrote and whatever the clock readings were.
C1_ReleaseOrder ==
  /\ IsPrefix(ReleaseOrder, << "ib", "document", "renderer", "ob" >>)
  /\ pc = "returned" => ReleaseOrder = << "ib", "document", "renderer", "ob" >>

C1_Witness ==
  /\ pc = "returned"
  /\ ReleaseOrder = << "ib", "document", "renderer", "ob" >>
  /\ ret = << 1 >>
  /\ Len(rendered) > 0

\* C2: when md2html returns (0, or 1 on timing failure) every resource that
\* was acquired has been released exactly once, and nothing that was not
\* acquired has been released.
C2_ReleasedExactlyOnce ==
  pc = "returned" =>
    \A r \in Resources :
      /\ Count("new", r) <= 1
      /\ Count("free", r) = Count("new", r)

C2_Witness ==
  /\ pc = "returned"
  /\ ret = << 1 >>
  /\ \A r \in Resources : Count("new", r) = 1 /\ Count("free", r) = 1

\* C3: what md2html stores in *output_data and *output_size is exactly the
\* content and size of the output buffer as the render call left it.
C3_OutputFidelity ==
  pc = "returned" =>
    /\ output_size = << Len(rendered) >>
    /\ output_size = << ob.size >>
    /\ RegionBytes(output_data[1]) = rendered
    /\ RegionBytes(output_data[1]) = SubSeq(ob.data, 1, ob.size)

C3_Witness ==
  /\ pc = "returned"
  /\ Len(rendered) >= 2
  /\ rendered[1] # rendered[2]
  /\ RegionBytes(output_data[1]) = rendered

\* C4: md2html returns 1 exactly when a clock reading is (clock_t) -1 and 0
\* otherwise, and by the time it returns the render has run, the four
\* resources are released and the output and its length are delivered.
C4_TimingFailure ==
  /\ ret # << >> => pc = "returned"
  /\ pc = "returned" =>
       /\ (t1 = ClockFail \/ t2 = ClockFail) => ret = << 1 >>
       /\ (t1 # ClockFail /\ t2 # ClockFail) => ret = << 0 >>
       /\ Count("use", "document") = 1
       /\ \A r \in Resources : Count("free", r) = 1
       /\ output_data # << >>
       /\ RegionBytes(output_data[1]) = rendered
       /\ output_size = << Len(rendered) >>

C4_Witness ==
  /\ pc = "returned"
  /\ ret = << 1 >>
  /\ t1 # ClockFail
  /\ t2 = ClockFail
  /\ Len(rendered) > 0
  /\ RegionBytes(output_data[1]) = rendered

\* C5: once the construction of a buffer, the renderer or the document has
\* failed, the run ends with exit code 4 without output, and it never goes on
\* to the render or the copy with the null resource.
C5_AllocationFailureExits4 ==
  AllocFailed =>
    /\ pc \notin {"render", "clock2", "free_ib", "free_document", "free_renderer",
                  "malloc", "memcpy", "store", "free_ob", "show_time"}
    /\ pc \in {"returned", "crashed"} => ExitCode = "4" /\ output_data = << >>

\* the bits of the configuration: extensions and render flags are two spaces
FlagSet(f) == IF f \in extensions_info THEN f \in data.extensions
              ELSE f \in data.render_flags

\* C6: in the configuration the pipeline consumes, the last of contradictory
\* tokens decides: after [A, no-A] the bit of A is cleared, after
\* [A, no-A, A] it is set.
C6_LastTokenWins ==
  pc # "parse_options" =>
    \A f \in TokenNames :
      /\ tokens = << Token(FALSE, f), Token(TRUE, f) >> => ~FlagSet(f)
      /\ tokens = << Token(FALSE, f), Token(TRUE, f), Token(FALSE, f) >> => FlagSet(f)

\* the header a renderer function belongs to: html.h or latex.h
RendererFamily(fn) ==
  IF fn \in {"hoedown_html_renderer_new", "hoedown_html_toc_renderer_new",
             "hoedown_html_renderer_free"}
    THEN "html"
    ELSE "latex"

C8_EmptyInputValid ==
  (pc = "returned" /\ input = << >> /\ t1 # ClockFail /\ t2 # ClockFail) =>
    /\ ret = << 0 >>
    /\ ~output_data[1].null
    /\ output_size = << Len(output_data[1].bytes) >>

\* C9: the document is built with both the prologue and the epilogue set when
\* the variant is HTML, and with both empty for every other variant.
C9_ExtOnlyForHtml ==
  ~document.null =>
    /\ document.ext = ext
    /\ data.renderer = "RENDERER_HTML" =>
         document.ext.extra_header # "NULL" /\ document.ext.extra_closing # "NULL"
    /\ data.renderer # "RENDERER_HTML" =>
         document.ext.extra_header = "NULL" /\ document.ext.extra_closing = "NULL"

C9_Witness ==
  /\ ~document.null
  /\ data.renderer = "RENDERER_HTML"
  /\ document.ext.extra_header # "NULL"
  /\ document.ext.extra_closing # "NULL"

\* C10: no call uses or releases a resource after its release; the output
\* buffer is read after the document and the renderer are gone, and before
\* its own release.
C10_NoUseAfterRelease ==
  \A i \in 1 .. Len(events) : \A j \in 1 .. Len(events) :
    (i < j /\ events[i].op = "free") => events[j].res # events[i].res

C10_Witness ==
  /\ pc = "returned"
  /\ \E i \in 1 .. Len(events) : \E j \in 1 .. Len(events) :
       /\ i < j
       /\ events[i] = Event("free", "renderer", "hoedown_html_renderer_free")
       /\ events[j] = Event("use", "ob", "ob->data")

====
